---- MODULE Spec2Model ----
(***************************************************************************)
(* Narrative framing phrase extraction (pipeline/signal/phrase_extraction). *)
(* Text is modelled at character level: a string is a sequence of          *)
(* one-character strings, so that lowercasing, URL and punctuation         *)
(* stripping, tokenization, joining and Python's character-level `in`      *)
(* are computed as the code computes them.                                 *)
(***************************************************************************)
EXTENDS Integers, Sequences, FiniteSets, TLC

(***************************************************************************)
(* Characters and strings                                                  *)
(***************************************************************************)

\* The characters of the model, in ascending code point order.
CodePoints ==
    << "\n", " ", "-", ".", ":", "C", "E", "G", "M", "P", "S", "T", "U",
       "a", "b", "c", "d", "e", "f", "g", "h", "i", "j", "k", "l", "m", "n",
       "o", "p", "r", "s", "t", "u", "y" >>

OrdTable ==
    [c \in {CodePoints[k] : k \in 1..Len(CodePoints)} |->
        CHOOSE k \in 1..Len(CodePoints) : CodePoints[k] = c]

\* ord(c)
Ord(c) == OrdTable[c]

\* str.lower() on one character.
LowerChar(c) ==
    CASE c = "C" -> "c"
      [] c = "E" -> "e"
      [] c = "G" -> "g"
      [] c = "M" -> "m"
      [] c = "P" -> "p"
      [] c = "S" -> "s"
      [] c = "T" -> "t"
      [] c = "U" -> "u"
      [] OTHER -> c

\* str.lower()
Lower(str) == [k \in 1..Len(str) |-> LowerChar(str[k])]

\* \s of the regular expressions
IsSpace(c) == c \in {" ", "\n"}

\* \w of the regular expressions
IsWordChar(c) == c \notin {"\n", " ", "-", ".", ":"}

\* Python's str < str: lexicographic by code point, a proper prefix first.
StrLess(x, y) ==
    LET differ == {k \in 1..Len(x) : k <= Len(y) /\ x[k] # y[k]}
    IN  IF differ = {} THEN Len(x) < Len(y)
        ELSE LET k == CHOOSE d \in differ : \A j \in differ : d <= j
             IN  Ord(x[k]) < Ord(y[k])

\* Python's `p in q` on strings: p occurs in q as a run of characters.
IsSubstring(p, q) ==
    \E k \in 0..(Len(q) - Len(p)) : SubSeq(q, k + 1, k + Len(p)) = p

\* str.strip()
RECURSIVE LStrip(_)
LStrip(str) ==
    IF str # << >> /\ IsSpace(str[1]) THEN LStrip(Tail(str)) ELSE str

RECURSIVE RStrip(_)
RStrip(str) ==
    IF str # << >> /\ IsSpace(str[Len(str)])
    THEN RStrip(SubSeq(str, 1, Len(str) - 1))
    ELSE str

Strip(str) == RStrip(LStrip(str))

\* " ".join(tokens)
RECURSIVE Join(_)
Join(tokens) ==
    IF tokens = << >> THEN << >>
    ELSE IF Len(tokens) = 1 THEN tokens[1]
    ELSE tokens[1] \o << " " >> \o Join(Tail(tokens))

\* The indices of str that satisfy Test, in increasing order.
Indices(str, Test(_)) == SelectSeq([k \in 1..Len(str) |-> k], Test)

\* str.split(): the maximal runs of non-space characters.
Split(str) ==
    LET n == Len(str)
        starts == Indices(str, LAMBDA k : /\ ~IsSpace(str[k])
                                          /\ (k = 1 \/ IsSpace(str[k - 1])))
        ends == Indices(str, LAMBDA k : /\ ~IsSpace(str[k])
                                        /\ (k = n \/ IsSpace(str[k + 1])))
    IN  [j \in 1..Len(starts) |-> SubSeq(str, starts[j], ends[j])]

\* re.sub(r'[^\w\s]', '', str)
StripPunct(str) == SelectSeq(str, LAMBDA c : IsWordChar(c) \/ IsSpace(c))

\* re.sub(r'http\S+', '', str): at each leftmost "http" followed by at
\* least one non-space character, the match runs to the next space.
RemoveUrls(str) ==
    LET n == Len(str)
        http == Indices(str, LAMBDA k :
                    /\ k + 4 <= n
                    /\ SubSeq(str, k, k + 3) = << "h", "t", "t", "p" >>
                    /\ ~IsSpace(str[k + 4]))
        matched(k) == \E m \in 1..Len(http) :
                          /\ http[m] <= k
                          /\ \A j \in http[m]..k : ~IsSpace(str[j])
        kept == Indices(str, LAMBDA k : ~matched(k))
    IN  [j \in 1..Len(kept) |-> str[kept[j]]]

(***************************************************************************)
(* Python list and set helpers                                             *)
(***************************************************************************)

Range(seq) == {seq[k] : k \in 1..Len(seq)}

\* sorted(seq, key=..., reverse=True), keys[k] being the key of seq[k]:
\* stable, descending by key.
SortedDesc(seq, keys) ==
    LET n == Len(seq)
        before(j, k) == \/ keys[j] > keys[k]
                        \/ keys[j] = keys[k] /\ j < k
        ranked == {<< k, Cardinality({j \in 1..n : before(j, k)}) + 1 >> :
                      k \in 1..n}
    IN  [r \in 1..n |-> seq[(CHOOSE pair \in ranked : pair[2] = r)[1]]]

(***************************************************************************)
(* State                                                                   *)
(***************************************************************************)

VARIABLES
    stopwords_file, \* data/stopword-id.csv as _load_resources finds it
    stopwords,      \* self.stopwords, loaded by _load_resources
    window_size,    \* self.window_size
    hashSeed,       \* the interpreter's string hash seed for this process
    entity_word,    \* argument of extract_phrases
    articles,       \* argument of extract_phrases
    pc,             \* "new", "init_raised", "idle", "loop", "done", "raised"
    idx,            \* position of the article loop in articles
    phrase_data,    \* the dict phrase -> {count, sources}, in insertion order
    results,        \* the list extract_phrases returns
    returned,       \* the lists returned by the calls completed so far
    tbl_articles,   \* table articles: the rows, as records of id, url, date
    tbl_sentiment,  \* table sentiment_analysis: the rows in insertion order
    run,            \* run_pipeline: its argument, its locals and its stage
    tbl_framing,    \* table entity_framing: the rows in insertion order
    job,            \* the re-extraction under way: its arguments and progress
    response,       \* what the last get_framing_data returned, and for what
    sched,          \* scheduler.py main: its position, locals and child
    state_file,     \* data/scheduler_state.json
    monitor,        \* monitor.py get_next_run: its position and its result
    rp,             \* run_pipeline: its position, db_session, the exception
    metadata,       \* run_pipeline's metadata dict
    run_meta,       \* the run's run_meta.json
    pipeline_runs,  \* the run's row of table pipeline_runs
    session         \* the session get_db_session returned

\* The variables of the extractor and those of the database.
extractorVars ==
    << stopwords_file, stopwords, window_size, hashSeed, entity_word,
       articles, pc, idx, phrase_data, results, returned >>

dbVars == << tbl_articles, tbl_sentiment, tbl_framing, job, response, run >>

schedulerVars == << sched, state_file, monitor >>

runVars == << rp, metadata, run_meta, pipeline_runs, session >>

opsVars == << schedulerVars, runVars >>

vars == << extractorVars, dbVars, opsVars >>

NoJob ==
    [ids |-> {}, rows |-> << >>, step |-> "idle", rounds |-> 0,
     first |-> << >>]

NoResponse ==
    [queried |-> FALSE, entity_word |-> << >>, start_date |-> 0,
     end_date |-> 0, rows |-> << >>]

NoRun ==
    [stage |-> "idle", db_session |-> FALSE, has_limit |-> FALSE, limit |-> 0,
     feed |-> << >>, articles |-> << >>, cleaned_articles |-> << >>,
     url_to_id |-> {}, articles_with_sentiment |-> << >>]

NoSched ==
    [pc |-> "off", interval |-> 0, wait |-> 0, round |-> 0,
     outcome |-> "none", children |-> 0, next_run |-> 0, written |-> {}]

NoFile == [exists |-> FALSE, complete |-> FALSE, next_run |-> 0]

NoResult == [kind |-> "none", next_run |-> 0]

NoMonitor == [pc |-> "off", result |-> NoResult]

NoCall ==
    [pc |-> "off", stage |-> 0, db_session |-> "None", caught |-> "",
     raised |-> "", executed |-> {}]

NoMetadata == [stages |-> {}, status |-> ""]

NoRow ==
    [exists |-> FALSE, status |-> "", completed_at |-> FALSE,
     errors |-> FALSE, stages |-> {}]

\* No scheduler and no monitor.
NoScheduler ==
    /\ sched = NoSched
    /\ state_file = NoFile
    /\ monitor = NoMonitor

\* No call of run_pipeline under way.
NoRunner ==
    /\ rp = NoCall
    /\ metadata = NoMetadata
    /\ run_meta = NoMetadata
    /\ pipeline_runs = NoRow
    /\ session = "none"

NoOps == NoScheduler /\ NoRunner

\* The extractor runs without a database.
NoDatabase ==
    /\ tbl_articles = << >>
    /\ tbl_sentiment = << >>
    /\ run = NoRun
    /\ tbl_framing = << >>
    /\ job = NoJob
    /\ response = NoResponse

\* hash(str) under the process's seed; only the order it induces matters.
\* What hashing the characters of a non-empty str does to the hash h so
\* far, h -> (h * 31 + ord(c)) % 13 for each character c in turn, as the
\* pair << a, b >> of the map h -> (a * h + b) % 13.
RECURSIVE HashSteps(_)
HashSteps(str) ==
    IF Len(str) = 1 THEN << 31 % 13, Ord(str[1]) % 13 >>
    ELSE LET half == Len(str) \div 2
             first == HashSteps(SubSeq(str, 1, half))
             then == HashSteps(SubSeq(str, half + 1, Len(str)))
         IN  << (then[1] * first[1]) % 13,
                (then[1] * first[2] + then[2]) % 13 >>

StrHashFrom(str, h) ==
    IF str = << >> THEN h
    ELSE LET steps == HashSteps(str) IN (steps[1] * h + steps[2]) % 13

StrHash(str) == StrHashFrom(str, hashSeed)

\* list(set(S)): iteration order of a set of strings follows the hashes.
SetToList(S) ==
    LET hashed == {<< x, StrHash(x) >> : x \in S}
        before(x, y) == \/ x[2] < y[2]
                        \/ x[2] = y[2] /\ StrLess(x[1], y[1])
        ranked == {<< x[1], Cardinality({y \in hashed : before(y, x)}) + 1 >> :
                      x \in hashed}
    IN  [r \in 1..Cardinality(S) |->
            (CHOOSE pair \in ranked : pair[2] = r)[1]]

(***************************************************************************)
(* PhraseExtractor                                                         *)
(***************************************************************************)

\* clean_text
clean_text(text) ==
    IF text = << >> THEN << >>
    ELSE LET lowered == Lower(text)
             no_urls == RemoveUrls(lowered)
             no_newlines == [k \in 1..Len(no_urls) |->
                                IF no_urls[k] = "\n" THEN " " ELSE no_urls[k]]
         IN  Strip(no_newlines)

\* nltk sent_tokenize on the texts of the model: a sentence ends at a "."
\* that is followed by white space (or ends the text).
sent_tokenize(text) ==
    LET n == Len(text)
        ends == Indices(text, LAMBDA k : /\ text[k] = "."
                                         /\ (k = n \/ IsSpace(text[k + 1])))
        from(j) == IF j = 1 THEN 1 ELSE ends[j - 1] + 1
        rest == Strip(SubSeq(text, from(Len(ends) + 1), n))
    IN  [j \in 1..Len(ends) |-> Strip(SubSeq(text, from(j), ends[j]))]
            \o (IF rest = << >> THEN << >> ELSE << rest >>)

\* nltk word_tokenize on lowercased text without punctuation.
word_tokenize(text) == Split(text)

\* tokens[start:end] of Python, 0-based and half-open.
Slice(tokens, start, end) == SubSeq(tokens, start + 1, end)

Max(a, b) == IF a >= b THEN a ELSE b

Min(a, b) == IF a <= b THEN a ELSE b

\* word_tokenize(re.sub(r'[^\w\s]', '', entity_word.lower()))
EntityTokens(entity) == word_tokenize(StripPunct(Lower(entity)))

\* Line 86: start = max(0, i - self.window_size)
WindowStart(i, size) == Max(0, i - size)

\* The window running on to the end of the sentence.
WindowEnd_Open(len, i, n, size) == len

\* Line 87: end = min(len(tokens), i + n + self.window_size)
WindowEnd(len, i, n, size) == Min(len, i + n + size)

\* Every sentence yields a window, with or without the entity.
SentenceWindows_All(sentence, entity) ==
    << word_tokenize(Lower(StripPunct(sentence))) >>

\* The windows of one sentence (body of the sentence loop).
SentenceWindows(sentence, entity) ==
    IF IsSubstring(Lower(entity), Lower(sentence))
    THEN LET tokens == word_tokenize(Lower(StripPunct(sentence)))
             entity_tokens == EntityTokens(entity)
             n == Len(entity_tokens)
             matches == SelectSeq([k \in 1..Max(0, Len(tokens) - n + 1) |-> k - 1],
                           LAMBDA i : Slice(tokens, i, i + n) = entity_tokens)
         IN  [m \in 1..Len(matches) |->
                 LET i == matches[m]
                     start == WindowStart(i, window_size)
                     end == WindowEnd(Len(tokens), i, n, window_size)
                 IN  Slice(tokens, start, end)]
    ELSE << >>

RECURSIVE ConcatAll(_)
ConcatAll(seqs) ==
    IF seqs = << >> THEN << >> ELSE seqs[1] \o ConcatAll(Tail(seqs))

\* A list without the repetitions of its elements.
RECURSIVE WithoutRepeats(_)
WithoutRepeats(seq) ==
    IF seq = << >> THEN << >>
    ELSE LET init == WithoutRepeats(SubSeq(seq, 1, Len(seq) - 1))
             last == seq[Len(seq)]
         IN  IF \E k \in 1..Len(init) : init[k] = last THEN init
             ELSE Append(init, last)

\* Equal windows emitted once.
get_context_windows_Distinct(text, entity) ==
    LET sentences == sent_tokenize(text)
    IN  IF EntityTokens(entity) = << >> THEN << >>
        ELSE WithoutRepeats(ConcatAll([s \in 1..Len(sentences) |->
                                          SentenceWindows(sentences[s], entity)]))

\* get_context_windows
get_context_windows(text, entity) ==
    LET sentences == sent_tokenize(text)
    IN  IF EntityTokens(entity) = << >> THEN << >>
        ELSE ConcatAll([s \in 1..Len(sentences) |->
                           SentenceWindows(sentences[s], entity)])


\* sorted(phrases, key=len, reverse=True)
SortedByLenDesc(phrases) ==
    SortedDesc(phrases, [k \in 1..Len(phrases) |-> Len(phrases[k])])

RECURSIVE FilterKept(_, _)
FilterKept(sorted_phrases, kept_phrases) ==
    IF sorted_phrases = << >> THEN kept_phrases
    ELSE LET phrase == sorted_phrases[1]
             is_substring == \E k \in 1..Len(kept_phrases) :
                                 IsSubstring(phrase, kept_phrases[k])
         IN  FilterKept(Tail(sorted_phrases),
                        IF is_substring THEN kept_phrases
                        ELSE Append(kept_phrases, phrase))

\* Repetitions removed, substrings kept.
filter_subphrases_Distinct(phrases) == SetToList(Range(phrases))

\* _filter_subphrases, lines 94-117
filter_subphrases(phrases) ==
    IF phrases = << >> THEN << >>
    ELSE FilterKept(SortedByLenDesc(SetToList(Range(phrases))), << >>)

\* The window is never split at entity tokens.
IsEntityToken_Never(token, entity_tokens_clean) == FALSE

\* Line 143: a window token is an entity token.
IsEntityToken(token, entity_tokens_clean) == token \in entity_tokens_clean

\* Step 1 of extract_from_article: split the window at entity tokens.
RECURSIVE SegmentsFrom(_, _, _)
SegmentsFrom(window, entity_tokens_clean, current_segment) ==
    IF window = << >>
    THEN IF current_segment # << >> THEN << current_segment >> ELSE << >>
    ELSE IF IsEntityToken(window[1], entity_tokens_clean)
         THEN (IF current_segment # << >> THEN << current_segment >> ELSE << >>)
              \o SegmentsFrom(Tail(window), entity_tokens_clean, << >>)
         ELSE SegmentsFrom(Tail(window), entity_tokens_clean,
                           Append(current_segment, window[1]))

Segments(window, entity_tokens_clean) ==
    SegmentsFrom(window, entity_tokens_clean, << >>)

\* Step 2: trim stop words from both ends of a segment.
RECURSIVE TrimStart(_, _)
TrimStart(seg, start) ==
    IF start < Len(seg) /\ seg[start + 1] \in stopwords
    THEN TrimStart(seg, start + 1) ELSE start

RECURSIVE TrimEnd(_, _, _)
TrimEnd(seg, start, end) ==
    IF end > start /\ seg[end] \in stopwords
    THEN TrimEnd(seg, start, end - 1) ELSE end

PhraseTokens(seg) ==
    LET start == TrimStart(seg, 0)
        end == TrimEnd(seg, start, Len(seg))
    IN  Slice(seg, start, end)

MinPhraseTokens == 2

MaxPhraseTokens == 8

LongPhraseCut == 6

\* Long segments kept whole instead of cut to their two ends.
SegmentCandidates_NoCut(phrase_tokens) ==
    IF MinPhraseTokens <= Len(phrase_tokens)
    THEN << Join(phrase_tokens) >>
    ELSE << >>

\* Lines 168-174: the candidates one trimmed segment contributes.
SegmentCandidates(phrase_tokens) ==
    IF MinPhraseTokens <= Len(phrase_tokens) /\ Len(phrase_tokens) <= MaxPhraseTokens
    THEN << Join(phrase_tokens) >>
    ELSE IF Len(phrase_tokens) > MaxPhraseTokens
         THEN << Join(SubSeq(phrase_tokens, 1, LongPhraseCut)),
                 Join(SubSeq(phrase_tokens, Len(phrase_tokens) - LongPhraseCut + 1,
                             Len(phrase_tokens))) >>
         ELSE << >>

WindowCandidates(window, entity_tokens_clean) ==
    LET segments == Segments(window, entity_tokens_clean)
    IN  ConcatAll([k \in 1..Len(segments) |->
                      SegmentCandidates(PhraseTokens(segments[k]))])

\* The list `candidates` of extract_from_article, before deduplication.
Candidates(article_text, entity) ==
    LET text == clean_text(article_text)
        windows == get_context_windows(text, entity)
        entity_tokens_clean == Range(EntityTokens(entity))
    IN  ConcatAll([w \in 1..Len(windows) |->
                      WindowCandidates(windows[w], entity_tokens_clean)])

\* The candidates returned as collected, one entry per window.
extract_from_article_NoDedup(article_text, entity) ==
    Candidates(article_text, entity)

\* extract_from_article
extract_from_article(article_text, entity) ==
    filter_subphrases(SetToList(Range(Candidates(article_text, entity))))

\* Line 188: f"{title}. {summary}"
ArticleText(article) == article.title \o << ".", " " >> \o article.summary

\* The phrase map kept from one call to the next.
NewPhraseData_Keep(old) == old

\* Line 184: phrase_data = {}
NewPhraseData(old) == << >>

\* The count assigned instead of incremented.
IncCount_Assign(count) == 1

\* Line 198: phrase_data[phrase]["count"] += 1
IncCount(count) == count + 1

\* The url added to the sources of every phrase of the map.
AddPhrase_EverySource(pd, phrase, url) ==
    LET present == \E k \in 1..Len(pd) : pd[k].phrase = phrase
        pd1 == IF present THEN pd
               ELSE Append(pd, [phrase |-> phrase, count |-> 0, sources |-> {}])
    IN  [k \in 1..Len(pd1) |->
            [phrase |-> pd1[k].phrase,
             count |-> IF pd1[k].phrase = phrase THEN IncCount(pd1[k].count)
                       ELSE pd1[k].count,
             sources |-> IF url # << >> THEN pd1[k].sources \cup {url}
                         ELSE pd1[k].sources]]

\* The url replacing the sources collected so far.
AddPhrase_LastSource(pd, phrase, url) ==
    LET present == \E k \in 1..Len(pd) : pd[k].phrase = phrase
        pd1 == IF present THEN pd
               ELSE Append(pd, [phrase |-> phrase, count |-> 0, sources |-> {}])
    IN  [k \in 1..Len(pd1) |->
            IF pd1[k].phrase = phrase
            THEN [phrase |-> phrase,
                  count |-> IncCount(pd1[k].count),
                  sources |-> IF url # << >> THEN {url} ELSE pd1[k].sources]
            ELSE pd1[k]]

\* Lines 195-201: one iteration of the phrase loop.
AddPhrase(pd, phrase, url) ==
    LET present == \E k \in 1..Len(pd) : pd[k].phrase = phrase
        pd1 == IF present THEN pd
               ELSE Append(pd, [phrase |-> phrase, count |-> 0, sources |-> {}])
    IN  [k \in 1..Len(pd1) |->
            IF pd1[k].phrase = phrase
            THEN [phrase |-> phrase,
                  count |-> IncCount(pd1[k].count),
                  sources |-> IF url # << >> THEN pd1[k].sources \cup {url}
                              ELSE pd1[k].sources]
            ELSE pd1[k]]

RECURSIVE AddPhrases(_, _, _)
AddPhrases(pd, phrases, url) ==
    IF phrases = << >> THEN pd
    ELSE AddPhrases(AddPhrase(pd, phrases[1], url), Tail(phrases), url)

\* The aggregate deduplication left out: every observed phrase is kept.
KeptPhrases_NoFilter(pd) ==
    SortedByLenDesc([k \in 1..Len(pd) |-> pd[k].phrase])

\* Lines 206-207: the final aggregate deduplication.
KeptPhrases(pd) ==
    LET all_phrases == SortedByLenDesc([k \in 1..Len(pd) |-> pd[k].phrase])
    IN  filter_subphrases(all_phrases)

\* Line 210: phrase_data filtered down to the kept phrases, in their order.
FilterPhraseData(pd) ==
    LET kept_phrases == KeptPhrases(pd)
    IN  [k \in 1..Len(kept_phrases) |->
            pd[CHOOSE j \in 1..Len(pd) : pd[j].phrase = kept_phrases[k]]]

\* The sort by count left out.
SortByCount_None(pd) == pd

\* Line 213: sorted(phrase_data.items(), key=count, reverse=True)
SortByCount(pd) == SortedDesc(pd, [k \in 1..Len(pd) |-> pd[k].count])

\* The saliency filter letting single occurrences through.
Salient_Any(data) == data.count > 0

\* Line 219: the saliency filter.
Salient(data) == data.count > 1

\* Lines 216-224: format the output.
FormatResults(sorted_phrases) ==
    LET salient == SelectSeq(sorted_phrases, Salient)
    IN  [k \in 1..Len(salient) |->
            [phrase |-> salient[k].phrase,
             count |-> salient[k].count,
             sources |-> SetToList(salient[k].sources)]]

(***************************************************************************)
(* __init__ and _load_resources                                            *)
(***************************************************************************)

\* The stop-word file: whether it exists, whether open() succeeds, its
\* rows as csv.reader yields them, and the row at which reading raises
\* (0: no row does).
StopwordsFile(exists, opens, rows, bad_row) ==
    [exists |-> exists, opens |-> opens, rows |-> rows, bad_row |-> bad_row]

\* Lines 35-38: the exception raised inside the try block, if any.
LoadError(file) ==
    IF ~file.exists THEN "none"
    ELSE IF ~file.opens THEN "open"
    ELSE IF file.bad_row > 0 THEN "read"
    ELSE "none"

\* Lines 38-39: the rows the loop gets to see before an exception ends it.
RowsRead(file) ==
    IF ~file.exists \/ ~file.opens THEN << >>
    ELSE IF file.bad_row > 0 THEN SubSeq(file.rows, 1, file.bad_row - 1)
    ELSE file.rows

\* Lines 39-41: the first field of every non-empty row, stripped, lowered.
LoadedStopwords(file) ==
    LET rows == RowsRead(file)
    IN  {Lower(Strip(rows[k][1])) : k \in {j \in 1..Len(rows) : rows[j] # << >>}}

\* An error of open() left to the caller.
Propagates_OpenError(exc) == exc = "open"

\* Line 44: `except Exception` handles whatever the try block raised.
Propagates(exc) == FALSE

\* __init__ from line 20 on: _load_resources, lines 22-45.
load_resources ==
    /\ pc = "new"
    /\ stopwords' = stopwords \cup LoadedStopwords(stopwords_file)
    /\ pc' = IF Propagates(LoadError(stopwords_file)) THEN "init_raised"
             ELSE "idle"
    /\ UNCHANGED << stopwords_file, window_size, hashSeed, entity_word,
                    articles, idx, phrase_data, results, returned, dbVars,
                    opsVars >>

(***************************************************************************)
(* extract_phrases, one step per loop iteration                            *)
(***************************************************************************)

MaxCalls == 2

\* extract_phrases is entered: line 184.
Call ==
    /\ pc \in {"idle", "done"}
    /\ Len(returned) < MaxCalls
    /\ pc' = "loop"
    /\ idx' = 1
    /\ phrase_data' = NewPhraseData(phrase_data)
    /\ results' = << >>
    /\ UNCHANGED << stopwords_file, stopwords, window_size, hashSeed,
                    entity_word, articles,
                    returned, dbVars, opsVars >>

\* Line 188: article.get raises AttributeError on an element of the list
\* that is not a mapping.
Raises(article) == ~article.is_dict

\* The title taken out of the record instead of read.
ArticlesAfterIteration_Popping(arts, k) ==
    [arts EXCEPT ![k] = [@ EXCEPT !.title = << >>]]

\* Lines 188 and 199: the k-th record is read with get (title, summary,
\* url) and nothing is assigned to it or to the list.
ArticlesAfterIteration(arts, k) == arts

\* One iteration of the article loop, lines 186-201.  extract_phrases has
\* no handler: an exception raised in the loop body leaves the function.
ProcessArticle ==
    /\ pc = "loop"
    /\ idx <= Len(articles)
    /\ LET article == articles[idx]
       IN  IF Raises(article)
           THEN /\ pc' = "raised"
                /\ UNCHANGED << idx, phrase_data >>
           ELSE /\ pc' = "loop"
                /\ idx' = idx + 1
                /\ phrase_data' =
                       AddPhrases(phrase_data,
                                  extract_from_article(ArticleText(article),
                                                       entity_word),
                                  article.url)
    /\ articles' = ArticlesAfterIteration(articles, idx)
    /\ UNCHANGED << stopwords_file, stopwords, window_size, hashSeed,
                    entity_word,
                    results, returned, dbVars, opsVars >>

\* After the loop, lines 203-226.
Finish ==
    /\ pc = "loop"
    /\ idx > Len(articles)
    /\ phrase_data' = FilterPhraseData(phrase_data)
    /\ results' = FormatResults(SortByCount(phrase_data'))
    /\ returned' = Append(returned, results')
    /\ pc' = "done"
    /\ UNCHANGED << stopwords_file, stopwords, window_size, hashSeed,
                    entity_word, articles,
                    idx, dbVars, opsVars >>

Next == load_resources \/ Call \/ ProcessArticle \/ Finish

(***************************************************************************)
(* Inputs                                                                  *)
(***************************************************************************)

W_e == << "e" >>

W_E == << "E" >>

W_a == << "a" >>

W_b == << "b" >>

W_ab == << "a", "b" >>

W_s == << "s" >>

W_ae == << "a", "e" >>

W_T == << "T" >>

W_url == << "h", "t", "t", "p", ":", "e" >>

W_a_b == << "a", "-", "b" >>

W_Saya == << "S", "a", "y", "a" >>

W_saya == << "s", "a", "y", "a" >>

W_suka == << "s", "u", "k", "a" >>

W_makan == << "m", "a", "k", "a", "n" >>

W_siang == << "s", "i", "a", "n", "g" >>

W_gratis == << "g", "r", "a", "t", "i", "s" >>

W_Test == << "T", "e", "s", "t" >>

W_program == << "p", "r", "o", "g", "r", "a", "m" >>

W_Program == << "P", "r", "o", "g", "r", "a", "m" >>

W_Uji == << "U", "j", "i" >>

W_uji == << "u", "j", "i" >>

W_Coba == << "C", "o", "b", "a" >>

W_coba == << "c", "o", "b", "a" >>

W_Makan == << "M", "a", "k", "a", "n" >>

W_Siang == << "S", "i", "a", "n", "g" >>

W_Gratis == << "G", "r", "a", "t", "i", "s" >>

W_Pemerintah == << "P", "e", "m", "e", "r", "i", "n", "t", "a", "h" >>

W_sedang == << "s", "e", "d", "a", "n", "g" >>

W_melakukan == << "m", "e", "l", "a", "k", "u", "k", "a", "n" >>

W_untuk == << "u", "n", "t", "u", "k" >>

W_anak == << "a", "n", "a", "k" >>

W_sekolah == << "s", "e", "k", "o", "l", "a", "h" >>

\* A sentence: the words separated by blanks, closed by a full stop.
Sentence(ws) == Join(ws) \o << "." >>

\* A summary: the sentences separated by blanks.
Summary(sentences) == Join(sentences)

Article(title, summary, url) ==
    [is_dict |-> TRUE, title |-> title, summary |-> summary, url |-> url]

\* An element of the article list that is not a mapping (None).
NotAMapping ==
    [is_dict |-> FALSE, title |-> << >>, summary |-> << >>, url |-> << >>]

SeqsUpTo(S, n) == UNION {[1..k -> S] : k \in 0..n}

DefaultWindowSize == 7

\* The hash seeds considered: each gives the sets another iteration order.
HashSeeds == {0, 1}

\* A readable file of one stop word per line, in ascending order.
RECURSIVE Lines(_)
Lines(words) ==
    IF words = {} THEN << >>
    ELSE LET w == CHOOSE w \in words : \A v \in words \ {w} : StrLess(w, v)
         IN  << << w >> >> \o Lines(words \ {w})

FileOf(words) == StopwordsFile(TRUE, TRUE, Lines(words), 0)

MissingFile == StopwordsFile(FALSE, FALSE, << >>, 0)

\* The state of PhraseExtractor(window_size) after line 19, before
\* _load_resources, with the arguments of the calls to come.
Constructed(file, ws, seeds, entity, arts) ==
    /\ stopwords_file = file
    /\ stopwords = {}
    /\ window_size = ws
    /\ hashSeed \in seeds
    /\ entity_word = entity
    /\ articles = arts
    /\ pc = "new"
    /\ idx = 0
    /\ phrase_data = << >>
    /\ results = << >>
    /\ returned = << >>
    /\ NoDatabase
    /\ NoOps

\* Family 1: one article whose summary is any sentence of at most
\* MaxSentLen words, supplied twice.  So short a text yields at most one
\* phrase, and a set of one element has one order whatever the seed.
MaxSentLen == 3

TextWords == {W_E, W_a, W_b, W_s}

InitText ==
    \E ws \in SeqsUpTo(TextWords, MaxSentLen) \ {<< >>} :
    \E file \in {MissingFile, FileOf({W_s})} :
    \E size \in {1, DefaultWindowSize} :
        Constructed(file, size, {0}, W_e,
                    [k \in 1..2 |-> Article(W_T, Sentence(ws), W_a)])

\* Family 2: up to MaxArticles articles from a pool with overlapping
\* phrases, shared and missing urls, a url and punctuation in the text, a
\* word that merely contains the entity, and a non-mapping.
MaxArticles == 4

CorpusPool ==
    { Article(W_T, Sentence(<< W_a, W_b, W_e, W_b, W_a >>), W_b),
      Article(Join(<< W_E, W_ab, W_a >>),
              Summary(<< Sentence(<< W_e, W_a, W_b, W_a >>),
                         Sentence(<< W_ae, W_s, W_a >>) >>), << >>),
      Article(Join(<< W_E, W_a, W_a >>),
              Summary(<< Sentence(<< W_s, W_a, W_b, W_e, W_url, W_s >>),
                         Sentence(<< W_ae, W_a_b, W_E >>) >>), W_a),
      NotAMapping }

InitCorpus ==
    \E arts \in SeqsUpTo(CorpusPool, MaxArticles) :
        Constructed(FileOf({W_s}), DefaultWindowSize, HashSeeds, W_e, arts)

\* Family 3: one article, supplied twice, whose sentence is made of at
\* most MaxRuns runs of one word, each of length 1 or LongRun, or is a long
\* sentence with a stop word inside, under a window wider than the longest
\* phrase kept whole.
MaxRuns == 2

LongRun == 9

LongWords == {W_e, W_a, W_b}

Runs == {[k \in 1..n |-> w] : w \in LongWords, n \in {1, LongRun}}

\* Nine words beside the entity, a stop word sixth from one end.
StopInsideSentences ==
    { << W_e, W_a, W_a, W_a, W_a, W_a, W_s, W_b, W_b, W_b >>,
      << W_b, W_b, W_b, W_s, W_a, W_a, W_a, W_a, W_a, W_e >> }

LongSentences ==
    {ConcatAll(rs) : rs \in SeqsUpTo(Runs, MaxRuns) \ {<< >>}}
        \cup StopInsideSentences

InitLong ==
    \E ws \in LongSentences :
        Constructed(FileOf({W_s}), MaxPhraseTokens + 2, HashSeeds, W_e,
                    [k \in 1..2 |-> Article(W_T, Sentence(ws), W_a)])

\* Family 4: the article of test_deduplication, supplied once or twice,
\* with any stop-word file and an entity of one token or two.
SayaArticle ==
    Article(W_Test,
            Summary(<< Sentence(<< W_Saya, W_suka, W_makan, W_siang, W_gratis >>),
                       Sentence(<< W_Saya, W_suka, W_makan, W_siang, W_gratis >>) >>),
            << >>)

SayaEntities == {W_Saya, Join(<< W_Saya, W_suka >>)}

InitSaya ==
    \E sw \in SUBSET {W_saya, W_suka, W_makan, W_siang, W_gratis} :
    \E entity \in SayaEntities :
    \E copies \in 1..2 :
        Constructed(FileOf(sw), DefaultWindowSize, HashSeeds, entity,
                    [k \in 1..copies |-> SayaArticle])

\* Family 5: the article of test_basic_logic, supplied once or twice, with
\* a stop-word file that may hold its function words and its last content
\* word.
ProgramArticle ==
    Article(Join(<< W_Uji, W_Coba, W_Program, W_Makan, W_Siang, W_Gratis >>),
            Sentence(<< W_Pemerintah, W_sedang, W_melakukan, W_uji, W_coba,
                        W_program, W_makan, W_siang, W_gratis, W_untuk,
                        W_anak, W_sekolah >>),
            << >>)

ProgramStopwords == {W_sedang, W_melakukan, W_untuk, W_gratis}

InitProgram ==
    \E sw \in SUBSET ProgramStopwords :
    \E copies \in 1..2 :
        Constructed(FileOf(sw), DefaultWindowSize, HashSeeds, W_program,
                    [k \in 1..copies |-> ProgramArticle])

\* Family 6: one article, supplied twice, with the stop-word file in every
\* condition: missing, not openable, readable in full, and raising at one
\* of its rows.  The file has a padded upper-case word, an empty row and a
\* row of two fields.
ResourceRows == << << << " ", "S", " " >> >>, << >>, << W_b, W_a >> >>

ResourceFiles ==
    {MissingFile, StopwordsFile(TRUE, FALSE, ResourceRows, 0)}
        \cup {StopwordsFile(TRUE, TRUE, ResourceRows, k) :
                  k \in 0..Len(ResourceRows)}

ResourceArticle ==
    Article(W_T, Sentence(<< W_s, W_a, W_e, W_b, W_a, W_b >>), W_a)

InitResource ==
    \E file \in ResourceFiles :
        Constructed(file, DefaultWindowSize, {0}, W_e,
                    [k \in 1..2 |-> ResourceArticle])

\* Family 7: one article, supplied twice, whose summary is any sentence of
\* five words, with an entity of one token or two and a window narrower
\* than the sentence.
WindowEntities == {W_e, Join(<< W_e, W_b >>)}

InitWindow ==
    \E ws \in [1..5 -> {W_e, W_b, W_a}] :
    \E entity \in WindowEntities :
        Constructed(FileOf({W_s}), 1, {0}, entity,
                    [k \in 1..2 |-> Article(W_T, Sentence(ws), W_a)])

\* Family 8: one article, supplied twice, whose summary is any sentence of
\* three words of which one may be written with a hyphen, with an entity
\* written with the hyphen or without it.
PunctWords == {W_ab, W_a_b, W_a}

PunctEntities == {W_ab, W_a_b}

InitPunct ==
    \E ws \in [1..3 -> PunctWords] :
    \E entity \in PunctEntities :
        Constructed(FileOf({W_s}), DefaultWindowSize, {0}, entity,
                    [k \in 1..2 |-> Article(W_T, Sentence(ws), W_a)])

Init ==
    InitText \/ InitCorpus \/ InitLong \/ InitSaya \/ InitProgram
        \/ InitResource \/ InitWindow \/ InitPunct

Spec == Init /\ [][Next]_vars

(***************************************************************************)
(* The database: pipeline/db.py and api/queries.py                         *)
(***************************************************************************)

\* A row of table articles; published_at is nullable.
ArticleRow(id, url, has_date, published_at) ==
    [id |-> id, url |-> url, has_date |-> has_date,
     published_at |-> published_at]

\* A framing result as handed to insert_framing_results; the key
\* method_name may be absent.
FramingResult(article_id, entity, phrase, has_method, method_name) ==
    [article_id |-> article_id, entity_word |-> entity,
     framing_phrase |-> phrase, has_method |-> has_method,
     method_name |-> method_name]

\* db.py lines 263-268: the mapping built for one result.
FramingMapping(result) ==
    [article_id |-> result.article_id,
     entity_word |-> result.entity_word,
     framing_phrase |-> result.framing_phrase,
     method_name |-> IF result.has_method THEN result.method_name
                     ELSE "ngram_window"]

\* models.py line 112: article_id is a foreign key into articles.
ViolatesForeignKey(mappings, arts) ==
    \E k \in 1..Len(mappings) :
        mappings[k].article_id \notin {arts[j].id : j \in 1..Len(arts)}

\* insert_framing_results, db.py lines 251-278: the table afterwards.  A
\* failing bulk insert is rolled back as a whole.
InsertedFraming(table, arts, framing_results) ==
    IF framing_results = << >> THEN table
    ELSE LET mappings == [k \in 1..Len(framing_results) |->
                             FramingMapping(framing_results[k])]
         IN  IF ViolatesForeignKey(mappings, arts) THEN table
             ELSE table \o mappings

\* No row deleted.
RemainingFraming_All(table, article_ids) == table

\* delete_framing_for_articles, db.py lines 280-295: the table afterwards.
RemainingFraming(table, article_ids) ==
    IF article_ids = {} THEN table
    ELSE LET Kept(row) == row.article_id \notin article_ids
         IN  SelectSeq(table, Kept)

\* queries.py lines 23-25: the row joins an article published in the range
\* and its entity equals the argument, both lowered.
Matches(row, arts, entity, start_date, end_date) ==
    /\ Lower(row.entity_word) = Lower(entity)
    /\ \E k \in 1..Len(arts) :
           /\ arts[k].id = row.article_id
           /\ arts[k].has_date
           /\ start_date <= arts[k].published_at
           /\ arts[k].published_at <= end_date

\* queries.py lines 21-26: one group per phrase with count(distinct
\* Article.id).
FramingGroups(table, arts, entity, start_date, end_date) ==
    LET matching == {k \in 1..Len(table) :
                        Matches(table[k], arts, entity, start_date, end_date)}
        phrases == {table[k].framing_phrase : k \in matching}
    IN  {[framing_phrase |-> p,
          count |-> Cardinality({table[k].article_id :
                        k \in {j \in matching : table[j].framing_phrase = p}})] :
            p \in phrases}

\* The order by phrase alone.
OrderedBefore_PhraseOnly(g, h) == StrLess(g.framing_phrase, h.framing_phrase)

\* queries.py line 27: order_by(desc('count'), framing_phrase)
OrderedBefore(g, h) ==
    \/ g.count > h.count
    \/ g.count = h.count /\ StrLess(g.framing_phrase, h.framing_phrase)

\* The groups in the order of OrderedBefore.
Ordered(groups) ==
    LET ranked == {<< g, Cardinality({h \in groups : OrderedBefore(h, g)}) + 1 >> :
                      g \in groups}
    IN  [r \in 1..Cardinality(groups) |->
            (CHOOSE pair \in ranked : pair[2] = r)[1]]

\* queries.py line 28
FramingLimit == 50

\* get_framing_data, queries.py lines 19-29
get_framing_data(table, arts, entity, start_date, end_date) ==
    LET ordered == Ordered(FramingGroups(table, arts, entity,
                                         start_date, end_date))
    IN  SubSeq(ordered, 1, Min(FramingLimit, Len(ordered)))

\* A re-extraction repeats its pair of calls at most MaxRounds times.
MaxRounds == 2

\* delete_framing_for_articles(job.ids)
delete_framing_for_articles ==
    /\ job.step = "delete"
    /\ job.rounds < MaxRounds
    /\ tbl_framing' = RemainingFraming(tbl_framing, job.ids)
    /\ job' = [job EXCEPT !.step = "insert"]
    /\ response' = NoResponse
    /\ UNCHANGED << tbl_articles, tbl_sentiment, run, extractorVars, opsVars >>

\* insert_framing_results(job.rows)
insert_framing_results ==
    /\ job.step = "insert"
    /\ tbl_framing' = InsertedFraming(tbl_framing, tbl_articles, job.rows)
    /\ job' = [job EXCEPT !.step = "delete",
                          !.rounds = job.rounds + 1,
                          !.first = IF job.rounds = 0 THEN tbl_framing'
                                    ELSE job.first]
    /\ response' = NoResponse
    /\ UNCHANGED << tbl_articles, tbl_sentiment, run, extractorVars, opsVars >>

QueryEntities == {W_E, W_a}

QueryRanges == {<< 1, 2 >>, << 2, 2 >>, << 2, 1 >>}

\* GET /api/phrases, main.py lines 76-88
get_phrases ==
    \E entity \in QueryEntities :
    \E range \in QueryRanges :
        /\ response' =
               [queried |-> TRUE, entity_word |-> entity,
                start_date |-> range[1], end_date |-> range[2],
                rows |-> get_framing_data(tbl_framing, tbl_articles, entity,
                                          range[1], range[2])]
        /\ UNCHANGED << tbl_articles, tbl_sentiment, tbl_framing, job, run,
                        extractorVars, opsVars >>

NextDb == delete_framing_for_articles \/ insert_framing_results \/ get_phrases

\* The letters phrases are made of, in ascending order.
PhraseLetters == << "a", "b", "e", "g", "h", "i", "k", "m" >>

\* The two-word phrases over these letters, in ascending order.
PhrasePool ==
    [k \in 1..(Len(PhraseLetters) * Len(PhraseLetters)) |->
        << PhraseLetters[((k - 1) \div Len(PhraseLetters)) + 1], " ",
           PhraseLetters[((k - 1) % Len(PhraseLetters)) + 1] >>]

\* Results for one article: one phrase more than get_framing_data returns.
WideResults(id) ==
    [k \in 1..(FramingLimit + 1) |->
        FramingResult(id, W_e, PhrasePool[k], TRUE, "ngram_window")]

\* Results for one article: the last phrases of WideResults and one more,
\* for the entity in upper case.
TailResults(id) ==
    [k \in 1..4 |->
        FramingResult(id, W_E, PhrasePool[FramingLimit - 2 + k], TRUE,
                      "ngram_window")]

\* Results for one article: a result given twice, one of another entity
\* and one without method_name.
MixedResults(id) ==
    << FramingResult(id, W_e, PhrasePool[1], TRUE, "ngram_window"),
       FramingResult(id, W_e, PhrasePool[1], TRUE, "ngram_window"),
       FramingResult(id, W_a, PhrasePool[2], TRUE, "other"),
       FramingResult(id, W_E, PhrasePool[3], FALSE, "") >>

ResultKinds == {"wide", "tail", "mixed"}

ResultsOf(kind, id) ==
    CASE kind = "wide" -> WideResults(id)
      [] kind = "tail" -> TailResults(id)
      [] kind = "mixed" -> MixedResults(id)

\* The results of one kind for every article of ids, by ascending id.
RECURSIVE ResultsFor(_, _)
ResultsFor(kind, ids) ==
    IF ids = {} THEN << >>
    ELSE LET id == CHOOSE i \in ids : \A j \in ids : i <= j
         IN  ResultsOf(kind, id) \o ResultsFor(kind, ids \ {id})

\* Articles 1 and 2 are dated, article 3 has no date, there is no article 4.
StoredArticles ==
    << ArticleRow(1, "u1", TRUE, 1), ArticleRow(2, "u2", TRUE, 2),
       ArticleRow(3, "u3", FALSE, 0) >>

JobIds == {{}, {1}, {1, 2}, {2, 3}, {1, 4}}

\* The stored rows a re-extraction finds: none, or those of an earlier
\* extraction.
StoredFraming ==
    { << >>,
      [k \in 1..Len(ResultsFor("wide", {1}) \o ResultsFor("tail", {2, 3})) |->
          FramingMapping((ResultsFor("wide", {1})
                              \o ResultsFor("tail", {2, 3}))[k])] }

\* The extractor is not part of the database runs.
NoExtractor ==
    /\ stopwords_file = MissingFile
    /\ stopwords = {}
    /\ window_size = DefaultWindowSize
    /\ hashSeed = 0
    /\ entity_word = << >>
    /\ articles = << >>
    /\ pc = "unused"
    /\ idx = 0
    /\ phrase_data = << >>
    /\ results = << >>
    /\ returned = << >>

InitDb ==
    /\ NoExtractor
    /\ NoOps
    /\ tbl_articles = StoredArticles
    /\ tbl_sentiment = << >>
    /\ run = NoRun
    /\ tbl_framing \in StoredFraming
    /\ \E ids \in JobIds :
       \E kind \in ResultKinds :
           job = [ids |-> ids, rows |-> ResultsFor(kind, ids),
                  step |-> "delete", rounds |-> 0, first |-> << >>]
    /\ response = NoResponse

SpecDb == InitDb /\ [][NextDb]_vars

(***************************************************************************)
(* The daily run: run_pipeline.py                                          *)
(***************************************************************************)

\* An article as fetch_rss yields it, with what the cleaning and the
\* analysis will find in it: the hash of its normalized content, whether
\* langdetect takes it for Indonesian, whether analysing it raises.
FeedArticle(url, content_hash, is_indonesian, analysis_raises) ==
    [url |-> url, content_hash |-> content_hash,
     is_indonesian |-> is_indonesian, analysis_raises |-> analysis_raises]

\* run_pipeline.py lines 114-116: the limit, when one is given.
Limited(has_limit, limit, collected) ==
    IF has_limit /\ limit # 0 /\ Len(collected) > limit
    THEN IF limit > 0 THEN SubSeq(collected, 1, limit)
         ELSE SubSeq(collected, 1, Max(0, Len(collected) + limit))
    ELSE collected

\* normalize.py lines 77-99
RECURSIVE DedupFrom(_, _, _)
DedupFrom(arts, seen_hashes, seen_urls) ==
    IF arts = << >> THEN << >>
    ELSE IF arts[1].content_hash \in seen_hashes \/ arts[1].url \in seen_urls
         THEN DedupFrom(Tail(arts), seen_hashes, seen_urls)
         ELSE << arts[1] >>
                  \o DedupFrom(Tail(arts),
                               seen_hashes \cup {arts[1].content_hash},
                               seen_urls \cup {arts[1].url})

\* The url test of line 90 left out.
deduplicate_articles_HashOnly(arts) ==
    LET FirstOfHash(k) ==
            \A j \in 1..(k - 1) :
                arts[j].content_hash # arts[k].content_hash
        at == Indices(arts, FirstOfHash)
    IN  [j \in 1..Len(at) |-> arts[at[j]]]

deduplicate_articles(arts) == DedupFrom(arts, {}, {})

\* normalize.py lines 101-126
clean_articles(arts) ==
    LET IsIndonesian(article) == article.is_indonesian
    IN  SelectSeq(deduplicate_articles(arts), IsIndonesian)

\* db.py lines 38-46: one row is inserted for a new url, the row of a
\* known url is updated; the statement returns the id of each.
RECURSIVE Upserted(_, _)
Upserted(table, arts) ==
    IF arts = << >> THEN table
    ELSE IF \E k \in 1..Len(table) : table[k].url = arts[1].url
         THEN Upserted(table, Tail(arts))
         ELSE Upserted(Append(table,
                              ArticleRow(Len(table) + 1, arts[1].url, FALSE, 0)),
                       Tail(arts))

\* db.py line 46: a statement proposing one url twice is refused.
UpsertFails(arts) ==
    \E k, l \in 1..Len(arts) : k # l /\ arts[k].url = arts[l].url

\* db.py line 52
UrlToId(table, arts) ==
    {<< table[k].url, table[k].id >> :
        k \in {j \in 1..Len(table) :
                  \E a \in 1..Len(arts) : arts[a].url = table[j].url}}

\* sentiment.py lines 172-188: every article gets a sentiment, the
\* fallback when its analysis raised.
analyze_all_sentiments(arts) ==
    [k \in 1..Len(arts) |->
        [url |-> arts[k].url,
         sentiment |-> IF arts[k].analysis_raises THEN "error" ELSE "label"]]

\* run_pipeline.py lines 202-217: one result per analysed article whose
\* url has an id.
SentimentResults(with_sentiment, url_to_id) ==
    LET HasId(article) == \E pair \in url_to_id : pair[1] = article.url
        stored == SelectSeq(with_sentiment, HasId)
    IN  [k \in 1..Len(stored) |->
            [article_id |-> (CHOOSE pair \in url_to_id :
                                 pair[1] = stored[k].url)[2],
             method_name |-> "inset",
             label |-> stored[k].sentiment]]

\* run_pipeline.py lines 112-117
Collect ==
    /\ run.stage = "start"
    /\ run' = [run EXCEPT !.stage = "collected",
                          !.articles = Limited(run.has_limit, run.limit,
                                               run.feed)]
    /\ UNCHANGED << tbl_articles, tbl_sentiment, tbl_framing, job, response,
                    extractorVars, opsVars >>

\* run_pipeline.py line 161
Clean ==
    /\ run.stage = "collected"
    /\ run' = [run EXCEPT !.stage = "cleaned",
                          !.cleaned_articles = clean_articles(run.articles)]
    /\ UNCHANGED << tbl_articles, tbl_sentiment, tbl_framing, job, response,
                    extractorVars, opsVars >>

\* run_pipeline.py lines 178-185 and db.py lines 15-59
StoreArticles ==
    /\ run.stage = "cleaned"
    /\ IF ~run.db_session \/ run.cleaned_articles = << >>
       THEN /\ run' = [run EXCEPT !.stage = "stored"]
            /\ UNCHANGED tbl_articles
       ELSE IF UpsertFails(run.cleaned_articles)
       THEN /\ run' = [run EXCEPT !.stage = "failed"]
            /\ UNCHANGED tbl_articles
       ELSE /\ tbl_articles' = Upserted(tbl_articles, run.cleaned_articles)
            /\ run' = [run EXCEPT !.stage = "stored",
                                  !.url_to_id = UrlToId(tbl_articles',
                                                        run.cleaned_articles)]
    /\ UNCHANGED << tbl_sentiment, tbl_framing, job, response, extractorVars,
                    opsVars >>

\* run_pipeline.py line 192
Signal ==
    /\ run.stage = "stored"
    /\ run' = [run EXCEPT !.stage = "analysed",
                          !.articles_with_sentiment =
                              analyze_all_sentiments(run.cleaned_articles)]
    /\ UNCHANGED << tbl_articles, tbl_sentiment, tbl_framing, job, response,
                    extractorVars, opsVars >>

\* run_pipeline.py lines 200-220 and db.py lines 61-89, then the end of
\* the run, lines 258-265.
StoreSentiment ==
    /\ run.stage = "analysed"
    /\ tbl_sentiment' =
           IF run.db_session
           THEN tbl_sentiment
                    \o SentimentResults(run.articles_with_sentiment,
                                        run.url_to_id)
           ELSE tbl_sentiment
    /\ run' = [run EXCEPT !.stage = "completed"]
    /\ UNCHANGED << tbl_articles, tbl_framing, job, response, extractorVars,
                    opsVars >>

NextPipeline == Collect \/ Clean \/ StoreArticles \/ Signal \/ StoreSentiment

\* The feeds deliver at most MaxFeed articles.
MaxFeed == 3

\* Articles sharing a url or a content hash, one not Indonesian, one whose
\* analysis raises.
FeedPool ==
    { FeedArticle("u1", "h1", TRUE, FALSE),
      FeedArticle("u2", "h2", TRUE, TRUE),
      FeedArticle("u1", "h3", TRUE, FALSE),
      FeedArticle("u3", "h1", TRUE, FALSE),
      FeedArticle("u3", "h2", TRUE, FALSE),
      FeedArticle("u4", "h4", FALSE, FALSE) }

\* --limit: absent, or one of these.
Limits == {0, 1, 2}

InitPipeline ==
    /\ NoExtractor
    /\ NoOps
    /\ tbl_articles = << >>
    /\ tbl_sentiment = << >>
    /\ tbl_framing = << >>
    /\ job = NoJob
    /\ response = NoResponse
    /\ \E feed \in SeqsUpTo(FeedPool, MaxFeed) :
       \E db_session \in BOOLEAN :
       \E has_limit \in BOOLEAN :
       \E limit \in Limits :
           /\ ~has_limit => limit = 0
           /\ run = [stage |-> "start", db_session |-> db_session,
                     has_limit |-> has_limit, limit |-> limit, feed |-> feed,
                     articles |-> << >>, cleaned_articles |-> << >>,
                     url_to_id |-> {}, articles_with_sentiment |-> << >>]

SpecPipeline == InitPipeline /\ [][NextPipeline]_vars

(***************************************************************************)
(* The scheduler and the monitor: scheduler.py, monitor.py                 *)
(***************************************************************************)

\* --interval-hours in ticks of the clock; zero and below leave no wait.
Intervals == {-1, 0, 1, 2}

\* The rounds of the scheduler's loop, and the next_run each computes, are
\* told apart modulo Rounds.
Rounds == 3

\* The exception handler of run_pipeline_process left out.
AfterRun_NoExcept(outcome) ==
    IF outcome = "not_launched" THEN "crashed" ELSE "ran"

\* scheduler.py lines 49-62: run_pipeline_process logs what the run came
\* to and returns, whatever it was.
AfterRun(outcome) == "ran"

\* scheduler.py lines 73 and 51-52: subprocess.run starts run_pipeline.py
\* and waits for it, or raises because it cannot be started.
Launch ==
    /\ sched.pc = "run"
    /\ \/ sched' = [sched EXCEPT !.pc = "child",
                                 !.round = (@ + 1) % Rounds,
                                 !.outcome = "none",
                                 !.children = @ + 1]
       \/ sched' = [sched EXCEPT !.pc = AfterRun("not_launched"),
                                 !.round = (@ + 1) % Rounds,
                                 !.outcome = "not_launched"]
    /\ UNCHANGED << state_file, monitor, runVars, extractorVars, dbVars >>

\* scheduler.py lines 52-59: the child exits with return code zero or not.
ChildExit ==
    /\ sched.pc = "child"
    /\ \E outcome \in {"ok", "failed"} :
           sched' = [sched EXCEPT !.pc = AfterRun(outcome),
                                  !.outcome = outcome,
                                  !.children = @ - 1]
    /\ UNCHANGED << state_file, monitor, runVars, extractorVars, dbVars >>

\* scheduler.py line 76
ComputeNextRun ==
    /\ sched.pc = "ran"
    /\ sched' = [sched EXCEPT !.pc = "save",
                              !.next_run = sched.round,
                              !.wait = sched.interval]
    /\ UNCHANGED << state_file, monitor, runVars, extractorVars, dbVars >>

\* scheduler.py lines 38-43: opening the file for writing truncates it.
OpenStateFile ==
    /\ sched.pc = "save"
    /\ sched' = [sched EXCEPT !.pc = "write"]
    /\ state_file' = [exists |-> TRUE, complete |-> FALSE, next_run |-> 0]
    /\ UNCHANGED << monitor, runVars, extractorVars, dbVars >>

\* scheduler.py line 44 and the end of the with block: the state reaches
\* the file when the file is closed.
WriteStateFile ==
    /\ sched.pc = "write"
    /\ sched' = [sched EXCEPT !.pc = "wait",
                              !.written = @ \cup {sched.next_run}]
    /\ state_file' = [exists |-> TRUE, complete |-> TRUE,
                      next_run |-> sched.next_run]
    /\ UNCHANGED << monitor, runVars, extractorVars, dbVars >>

\* scheduler.py lines 83-85
Wait ==
    /\ sched.pc = "wait"
    /\ sched' = [sched EXCEPT !.pc = IF sched.wait > 0 THEN "sleep"
                                     ELSE "run"]
    /\ UNCHANGED << state_file, monitor, runVars, extractorVars, dbVars >>

\* scheduler.py line 85: time.sleep returns when the time has passed.
Wake ==
    /\ sched.pc = "sleep"
    /\ sched.wait <= 0
    /\ sched' = [sched EXCEPT !.pc = "run"]
    /\ UNCHANGED << state_file, monitor, runVars, extractorVars, dbVars >>

\* The clock advances towards next_run.
Tick ==
    /\ sched.pc \in {"save", "write", "wait", "sleep"}
    /\ sched.wait > 0
    /\ sched' = [sched EXCEPT !.wait = @ - 1]
    /\ UNCHANGED << state_file, monitor, runVars, extractorVars, dbVars >>

\* The try block of get_next_run without its except clause.
ReadState_NoExcept(file) ==
    IF file.complete
    THEN [kind |-> "next_run", next_run |-> file.next_run]
    ELSE [kind |-> "raised", next_run |-> 0]

\* monitor.py lines 23-28: a file that is no JSON document makes json.load
\* raise; every document the scheduler writes has the key next_run.
ReadState(file) ==
    IF file.complete
    THEN [kind |-> "next_run", next_run |-> file.next_run]
    ELSE [kind |-> "error", next_run |-> 0]

\* monitor.py lines 21-22 and 29
CheckStateFile ==
    /\ monitor.pc \in {"idle", "returned"}
    /\ monitor' = IF state_file.exists
                  THEN [pc |-> "try", result |-> NoResult]
                  ELSE [pc |-> "returned",
                        result |-> [kind |-> "not_scheduled", next_run |-> 0]]
    /\ UNCHANGED << sched, state_file, runVars, extractorVars, dbVars >>

\* monitor.py lines 23-28
ReadStateFile ==
    /\ monitor.pc = "try"
    /\ monitor' = [pc |-> IF ReadState(state_file).kind = "raised"
                          THEN "raised" ELSE "returned",
                   result |-> ReadState(state_file)]
    /\ UNCHANGED << sched, state_file, runVars, extractorVars, dbVars >>

\* The steps of the scheduler process itself.
SchedulerStep ==
    \/ Launch
    \/ ComputeNextRun
    \/ OpenStateFile
    \/ WriteStateFile
    \/ Wait
    \/ Wake

NextScheduler ==
    \/ Launch
    \/ ComputeNextRun
    \/ OpenStateFile
    \/ WriteStateFile
    \/ Wait
    \/ Wake
    \/ ChildExit
    \/ Tick
    \/ CheckStateFile
    \/ ReadStateFile

\* The scheduler starts with no state file or with the one an earlier
\* scheduler left, whose next_run is a time before this one started.
InitScheduler ==
    /\ NoExtractor
    /\ NoDatabase
    /\ NoRunner
    /\ \E interval \in Intervals :
       \E earlier \in BOOLEAN :
           /\ sched = [pc |-> "run", interval |-> interval, wait |-> 0,
                       round |-> 0, outcome |-> "none", children |-> 0,
                       next_run |-> 0,
                       written |-> IF earlier THEN {-1} ELSE {}]
           /\ state_file = [exists |-> earlier, complete |-> earlier,
                            next_run |-> IF earlier THEN -1 ELSE 0]
    /\ monitor = [pc |-> "idle", result |-> NoResult]

SpecScheduler == InitScheduler /\ [][NextScheduler]_vars

\* The scheduler process takes its next step, and time passes.  Nothing
\* is assumed of the child or of the monitor.
FairSpecScheduler ==
    /\ SpecScheduler
    /\ WF_vars(SchedulerStep)
    /\ WF_vars(Tick)

(***************************************************************************)
(* The bookkeeping of a run: run_pipeline.py lines 91-104 and 106-292      *)
(***************************************************************************)

\* The stages in the order run_pipeline executes them.
Stages == << "collect", "parse", "clean", "store", "signal", "topic" >>

\* run_pipeline.py lines 51-56: the stages the metadata and the row follow.
MetaStages == {"collect", "parse", "clean", "signal"}

\* run_pipeline.py lines 180 and 230: these stages need the database.
DbStages == {"store", "topic"}

\* db.py lines 116-150, when the commit succeeds.
update_pipeline_run(row, stage, status, errors) ==
    IF ~row.exists THEN row
    ELSE [row EXCEPT !.stages = IF stage # "" THEN @ \cup {stage} ELSE @,
                     !.status = IF status # "" THEN status ELSE @,
                     !.completed_at = IF status = "completed" THEN TRUE
                                      ELSE @,
                     !.errors = IF errors THEN TRUE ELSE @]

\* run_pipeline.py line 279: the exception is caught.
Caught(call, exception) ==
    [call EXCEPT !.pc = "except_meta", !.caught = exception]

\* The stage after the current one, or the end of the stages.
NextStage(call) ==
    IF call.stage < Len(Stages)
    THEN [call EXCEPT !.pc = "work", !.stage = @ + 1]
    ELSE [call EXCEPT !.pc = "complete_db"]

\* run_pipeline.py lines 92-93, outside any try block.
CreateMetadata ==
    /\ rp.pc = "init"
    /\ metadata' = [stages |-> {}, status |-> ""]
    /\ \/ /\ run_meta' = metadata'
          /\ rp' = [rp EXCEPT !.pc = "connect"]
       \/ /\ rp' = [rp EXCEPT !.pc = "raised",
                              !.raised = "save_run_metadata"]
          /\ UNCHANGED run_meta
    /\ UNCHANGED << pipeline_runs, session, schedulerVars, extractorVars,
                    dbVars >>

\* run_pipeline.py lines 96-98 and 101-104
Connect ==
    /\ rp.pc = "connect"
    /\ \/ /\ session' = "open"
          /\ rp' = [rp EXCEPT !.pc = "create", !.db_session = "session"]
       \/ /\ rp' = [rp EXCEPT !.pc = "work", !.stage = 1,
                              !.db_session = "None"]
          /\ UNCHANGED session
    /\ UNCHANGED << metadata, run_meta, pipeline_runs, schedulerVars,
                    extractorVars, dbVars >>

\* run_pipeline.py lines 100-104 and db.py lines 97-114: when the insert
\* fails the session is rolled back and run_pipeline drops its reference.
CreatePipelineRun ==
    /\ rp.pc = "create"
    /\ \/ /\ pipeline_runs' = [exists |-> TRUE, status |-> "running",
                               completed_at |-> FALSE, errors |-> FALSE,
                               stages |-> {}]
          /\ rp' = [rp EXCEPT !.pc = "work", !.stage = 1]
       \/ /\ rp' = [rp EXCEPT !.pc = "work", !.stage = 1,
                              !.db_session = "None"]
          /\ UNCHANGED pipeline_runs
    /\ UNCHANGED << metadata, run_meta, session, schedulerVars,
                    extractorVars, dbVars >>

\* run_pipeline.py lines 112, 140, 161, 184, 192 and 250-253: the work of
\* the stage, which returns or raises.
StageWork ==
    /\ rp.pc = "work"
    /\ LET stage == Stages[rp.stage]
       IN  IF stage \in DbStages /\ rp.db_session = "None"
           THEN rp' = NextStage(rp)
           ELSE \/ rp' = [(IF stage \in MetaStages
                           THEN [rp EXCEPT !.pc = "meta"]
                           ELSE NextStage(rp))
                             EXCEPT !.executed = @ \cup {stage}]
                \/ rp' = [Caught(rp, stage)
                             EXCEPT !.executed = @ \cup {stage}]
    /\ UNCHANGED << metadata, run_meta, pipeline_runs, session,
                    schedulerVars, extractorVars, dbVars >>

\* run_pipeline.py lines 119-124, 141-146, 163-168 and 193-198
StageMetadata ==
    /\ rp.pc = "meta"
    /\ metadata' = [metadata EXCEPT !.stages = @ \cup {Stages[rp.stage]}]
    /\ \/ /\ run_meta' = metadata'
          /\ rp' = IF rp.db_session = "session"
                   THEN [rp EXCEPT !.pc = "db"]
                   ELSE NextStage(rp)
       \/ /\ rp' = Caught(rp, "save_run_metadata")
          /\ UNCHANGED run_meta
    /\ UNCHANGED << pipeline_runs, session, schedulerVars, extractorVars,
                    dbVars >>

\* run_pipeline.py lines 126-131, 148-152, 170-174 and 200-225: the calls
\* into db.py, each of which commits or rolls back and raises.
StageDb ==
    /\ rp.pc = "db"
    /\ \/ /\ pipeline_runs' =
                 update_pipeline_run(pipeline_runs, Stages[rp.stage], "",
                                     FALSE)
          /\ \/ rp' = NextStage(rp)
             \/ rp' = Caught(rp, "insert_run_statistics")
       \/ /\ rp' = Caught(rp, "update_pipeline_run")
          /\ UNCHANGED pipeline_runs
       \/ /\ Stages[rp.stage] = "signal"
          /\ rp' = Caught(rp, "insert_sentiment_results")
          /\ UNCHANGED pipeline_runs
    /\ UNCHANGED << metadata, run_meta, session, schedulerVars,
                    extractorVars, dbVars >>

\* run_pipeline.py lines 259-260
MarkCompleted ==
    /\ rp.pc = "complete_db"
    /\ IF rp.db_session = "None"
       THEN /\ rp' = [rp EXCEPT !.pc = "complete_meta"]
            /\ UNCHANGED pipeline_runs
       ELSE \/ /\ pipeline_runs' =
                      update_pipeline_run(pipeline_runs, "", "completed",
                                          FALSE)
               /\ rp' = [rp EXCEPT !.pc = "complete_meta"]
            \/ /\ rp' = Caught(rp, "update_pipeline_run")
               /\ UNCHANGED pipeline_runs
    /\ UNCHANGED << metadata, run_meta, session, schedulerVars,
                    extractorVars, dbVars >>

\* run_pipeline.py lines 263-265
FinalMetadata ==
    /\ rp.pc = "complete_meta"
    /\ metadata' = [metadata EXCEPT !.status = "completed"]
    /\ \/ /\ run_meta' = metadata'
          /\ rp' = [rp EXCEPT !.pc = "finally"]
       \/ /\ rp' = Caught(rp, "save_run_metadata")
          /\ UNCHANGED run_meta
    /\ UNCHANGED << pipeline_runs, session, schedulerVars, extractorVars,
                    dbVars >>

\* run_pipeline.py lines 279-283: an exception raised here leaves the
\* handler for the finally clause.
ExceptMetadata ==
    /\ rp.pc = "except_meta"
    /\ metadata' = [metadata EXCEPT !.status = "failed"]
    /\ \/ /\ run_meta' = metadata'
          /\ rp' = [rp EXCEPT !.pc = "except_db"]
       \/ /\ rp' = [rp EXCEPT !.pc = "finally",
                              !.raised = "save_run_metadata"]
          /\ UNCHANGED run_meta
    /\ UNCHANGED << pipeline_runs, session, schedulerVars, extractorVars,
                    dbVars >>

\* run_pipeline.py lines 285-288
ExceptDb ==
    /\ rp.pc = "except_db"
    /\ IF rp.db_session = "None"
       THEN /\ rp' = [rp EXCEPT !.pc = "finally", !.raised = rp.caught]
            /\ UNCHANGED pipeline_runs
       ELSE \/ /\ pipeline_runs' =
                      update_pipeline_run(pipeline_runs, "", "failed", TRUE)
               /\ rp' = [rp EXCEPT !.pc = "finally", !.raised = rp.caught]
            \/ /\ rp' = [rp EXCEPT !.pc = "finally",
                                   !.raised = "update_pipeline_run"]
               /\ UNCHANGED pipeline_runs
    /\ UNCHANGED << metadata, run_meta, session, schedulerVars,
                    extractorVars, dbVars >>

\* run_pipeline.py lines 290-292
Finally ==
    /\ rp.pc = "finally"
    /\ session' = IF rp.db_session = "session" THEN "closed" ELSE session
    /\ rp' = [rp EXCEPT !.pc = IF rp.raised # "" THEN "raised"
                               ELSE "returned"]
    /\ UNCHANGED << metadata, run_meta, pipeline_runs, schedulerVars,
                    extractorVars, dbVars >>

NextRun ==
    \/ CreateMetadata
    \/ Connect
    \/ CreatePipelineRun
    \/ StageWork
    \/ StageMetadata
    \/ StageDb
    \/ MarkCompleted
    \/ FinalMetadata
    \/ ExceptMetadata
    \/ ExceptDb
    \/ Finally

InitRun ==
    /\ NoExtractor
    /\ NoDatabase
    /\ NoScheduler
    /\ rp = [NoCall EXCEPT !.pc = "init"]
    /\ metadata = NoMetadata
    /\ run_meta = NoMetadata
    /\ pipeline_runs = NoRow
    /\ session = "none"

SpecRun == InitRun /\ [][NextRun]_vars

(***************************************************************************)
(* Properties                                                              *)
(***************************************************************************)

ResultPhrases == {results[k].phrase : k \in 1..Len(results)}

\* The phrase set extract_from_article yields for the k-th article.
ArticlePhrases(k) ==
    Range(extract_from_article(ArticleText(articles[k]), entity_word))

AllMappings == \A k \in 1..Len(articles) : articles[k].is_dict

TokenCount(phrase) == Len(Split(phrase))

\* C1: in the returned list no record's phrase is a substring of another
\* record's phrase, also when the two came from different articles.
C1_NoSubstringPairs ==
    pc = "done" =>
        \A i, j \in 1..Len(results) :
            i # j => ~IsSubstring(results[i].phrase, results[j].phrase)

\* A returned phrase has suppressed a sub-phrase that only other articles
\* yielded.
C1_Witness ==
    /\ pc = "done"
    /\ AllMappings
    /\ \E i, j \in 1..Len(articles) :
       \E p \in ArticlePhrases(i) :
       \E q \in ArticlePhrases(j) :
           /\ p # q
           /\ IsSubstring(p, q)
           /\ q \in ResultPhrases
           /\ \A k \in 1..Len(articles) :
                  ~(p \in ArticlePhrases(k) /\ q \in ArticlePhrases(k))
           /\ Cardinality({k \in 1..Len(articles) : p \in ArticlePhrases(k)}) > 1

\* C2: every returned record has count >= 2.
C2_CountAtLeastTwo ==
    pc = "done" => \A k \in 1..Len(results) : results[k].count >= 2

\* A phrase seen in one article only was dropped while another was returned.
C2_Witness ==
    /\ pc = "done"
    /\ results # << >>
    /\ \E k \in 1..Len(phrase_data) : phrase_data[k].count = 1

\* C3: no phrase of extract_from_article (taken on each article of a
\* completed call) or of the returned list has a token of the normalized
\* entity among its tokens.
C3_NoEntityToken ==
    /\ \A k \in 1..Len(articles) :
           (pc = "done" /\ articles[k].is_dict) =>
               \A p \in ArticlePhrases(k) :
                   Range(Split(p)) \cap Range(EntityTokens(entity_word)) = {}
    /\ pc = "done" =>
           \A p \in ResultPhrases :
               Range(Split(p)) \cap Range(EntityTokens(entity_word)) = {}

\* A phrase is returned for an entity of two tokens.
C3_Witness ==
    /\ pc = "done"
    /\ results # << >>
    /\ Len(EntityTokens(entity_word)) = 2

\* C4 as stated: sorted by count descending, equal counts by phrase
\* ascending.
C4_TieByPhraseAscending ==
    pc = "done" =>
        \A i, j \in 1..Len(results) :
            i < j =>
                \/ results[i].count > results[j].count
                \/ /\ results[i].count = results[j].count
                   /\ StrLess(results[i].phrase, results[j].phrase)

\* C4 amended: sorted by count descending, and of two records with equal
\* count the one with the longer phrase (in characters) never comes second.
C4_TieByLengthDescending ==
    pc = "done" =>
        \A i, j \in 1..Len(results) :
            i < j =>
                \/ results[i].count > results[j].count
                \/ /\ results[i].count = results[j].count
                   /\ Len(results[i].phrase) >= Len(results[j].phrase)

\* Three records: the most frequent first, then two of equal count of
\* which the longer comes first although it is the greater string.
C4_Witness ==
    /\ pc = "done"
    /\ Len(results) >= 3
    /\ results[1].count > results[2].count
    /\ results[2].count = results[3].count
    /\ Len(results[2].phrase) > Len(results[3].phrase)
    /\ StrLess(results[3].phrase, results[2].phrase)

\* C5: two calls on the same extractor with the same entity and articles
\* return identical lists.
C5_SameOutputTwice ==
    \A i, j \in 1..Len(returned) : returned[i] = returned[j]

\* A second call has returned a list of several records with sources.
C5_Witness ==
    /\ Len(returned) >= 2
    /\ Len(returned[2]) >= 2
    /\ returned[2][1].sources # << >>

\* C6: an exception raised while one article is processed does not leave
\* extract_phrases.
C6_ExceptionNotPropagated == pc # "raised"

\* C7: when no supplied article contains the entity, the call raises
\* nothing and returns the empty list.
NoArticleContainsEntity ==
    \A k \in 1..Len(articles) :
        /\ articles[k].is_dict
        /\ ~IsSubstring(Lower(entity_word), Lower(ArticleText(articles[k])))

C7_EmptyWithoutEntity ==
    NoArticleContainsEntity =>
        /\ pc # "raised"
        /\ pc = "done" => results = << >>

\* Several articles with words that could form phrases, none with the
\* entity, and the call has returned.
C7_Witness ==
    /\ pc = "done"
    /\ Len(articles) >= 2
    /\ NoArticleContainsEntity
    /\ \A k \in 1..Len(articles) :
           Len(Split(StripPunct(articles[k].summary))) >= 2

\* C8: for entity 'Saya' and the single article of test_deduplication the
\* returned list contains 'suka makan siang gratis' and neither
\* 'makan siang gratis' nor 'makan siang'.
C8_SayaScenario ==
    (pc = "done" /\ entity_word = W_Saya /\ articles = << SayaArticle >>
        /\ stopwords \cap {W_suka, W_makan, W_siang, W_gratis} = {}) =>
        /\ Join(<< W_suka, W_makan, W_siang, W_gratis >>) \in ResultPhrases
        /\ Join(<< W_makan, W_siang, W_gratis >>) \notin ResultPhrases
        /\ Join(<< W_makan, W_siang >>) \notin ResultPhrases

\* C9: throughout the loop the count of a phrase is the number of
\* processed articles whose phrase set contains it, every such phrase has
\* a count, and a returned count is that number over the whole input.
ProcessedArticles ==
    IF pc = "loop" THEN 1..(idx - 1)
    ELSE IF pc = "done" THEN 1..Len(articles)
    ELSE {}

ProgramScenario ==
    /\ entity_word = W_program
    /\ articles = << ProgramArticle, ProgramArticle >>
    /\ stopwords \cap {W_makan, W_siang, W_gratis} = {}

MakanSiangGratis == Join(<< W_makan, W_siang, W_gratis >>)

\* C11: for the entity 'program' and two copies of the article of
\* test_basic_logic, the output has a phrase containing 'makan siang gratis'
\* and has no entry 'makan siang'.
C11_ProgramScenario ==
    (pc = "done" /\ ProgramScenario) =>
        /\ \E p \in ResultPhrases : IsSubstring(MakanSiangGratis, p)
        /\ Join(<< W_makan, W_siang >>) \notin ResultPhrases

C11_Witness ==
    /\ pc = "done"
    /\ ProgramScenario
    /\ W_untuk \in stopwords
    /\ \E k \in 1..Len(results) :
           /\ IsSubstring(MakanSiangGratis, results[k].phrase)
           /\ results[k].count = 2

\* Every segment of every window of every article is left as it is by the
\* stop-word trimming.
NoTrimming ==
    \A k \in 1..Len(articles) :
        articles[k].is_dict =>
            LET windows == get_context_windows(
                               clean_text(ArticleText(articles[k])),
                               entity_word)
            IN  \A w \in 1..Len(windows) :
                    LET segments == Segments(windows[w],
                                             Range(EntityTokens(entity_word)))
                    IN  \A g \in 1..Len(segments) :
                            PhraseTokens(segments[g]) = segments[g]

\* C12 as stated: when the stop-word file is missing or cannot be read, be
\* it that open() fails or that reading one of its rows fails, constructing
\* the extractor does not raise, the stop-word set is empty and extraction
\* runs without stop-word trimming.
C12_MissingOrUnreadable ==
    (~stopwords_file.exists \/ LoadError(stopwords_file) # "none") =>
        /\ pc # "init_raised"
        /\ stopwords = {}
        /\ pc = "done" => NoTrimming

\* C12, amended: when the stop-word file is missing or cannot be opened,
\* constructing the extractor does not raise, the stop-word set is empty
\* and extraction runs without stop-word trimming; when reading a row
\* fails, constructing does not raise either and the stop-word set holds
\* the words of the rows before it.
C12_MissingOrUnopenable ==
    /\ pc # "init_raised"
    /\ (~stopwords_file.exists \/ LoadError(stopwords_file) = "open") =>
           /\ stopwords = {}
           /\ pc = "done" => NoTrimming
    /\ (pc # "new" /\ LoadError(stopwords_file) = "read") =>
           stopwords = LoadedStopwords(StopwordsFile(TRUE, TRUE,
                           SubSeq(stopwords_file.rows, 1,
                                  stopwords_file.bad_row - 1), 0))

C12_Witness ==
    /\ ~stopwords_file.exists
    /\ pc = "done"
    /\ \E p \in ResultPhrases : Split(p)[1] = W_s

\* The rows of entity_framing the last request selects.
RequestedRows ==
    {k \in 1..Len(tbl_framing) :
        Matches(tbl_framing[k], tbl_articles, response.entity_word,
                response.start_date, response.end_date)}

RequestedPhrases == {tbl_framing[k].framing_phrase : k \in RequestedRows}

\* The number of distinct articles among the selected rows of a phrase.
RequestedCount(phrase) ==
    Cardinality({tbl_framing[k].article_id :
                    k \in {j \in RequestedRows :
                               tbl_framing[j].framing_phrase = phrase}})

\* C13: for an entity and a date range get_framing_data returns at most 50
\* rows, one per matching phrase with its article count; they are the
\* phrases of highest count, ordered by count descending and, at equal
\* count, by phrase ascending.
C13_TopFiftyByCount ==
    response.queried =>
        LET rows == response.rows
        IN  /\ Len(rows) <= 50
            /\ Len(rows) = Min(50, Cardinality(RequestedPhrases))
            /\ \A k \in 1..Len(rows) :
                   /\ rows[k].framing_phrase \in RequestedPhrases
                   /\ rows[k].count = RequestedCount(rows[k].framing_phrase)
            /\ \A k, l \in 1..Len(rows) :
                   k < l =>
                       \/ rows[k].count > rows[l].count
                       \/ /\ rows[k].count = rows[l].count
                          /\ StrLess(rows[k].framing_phrase,
                                     rows[l].framing_phrase)
            /\ \A p \in RequestedPhrases :
                   p \notin {rows[k].framing_phrase : k \in 1..Len(rows)} =>
                       \A k \in 1..Len(rows) :
                           rows[k].count >= RequestedCount(p)

\* More than 50 phrases match, and the 50 returned begin with phrases of
\* count 2 that come late in the alphabet.
C13_Witness ==
    /\ response.queried
    /\ Cardinality(RequestedPhrases) > 50
    /\ Len(response.rows) = 50
    /\ response.rows[1].count = 2
    /\ response.rows[50].count = 1
    /\ StrLess(response.rows[50].framing_phrase,
               response.rows[1].framing_phrase)

\* How often a row occurs in a table.
Occurrences(row, table) == Cardinality({k \in 1..Len(table) : table[k] = row})

\* The rows of a table with the number of times each occurs.
RowCounts(table) ==
    {<< table[k], Occurrences(table[k], table) >> : k \in 1..Len(table)}

\* C14: after delete_framing_for_articles(ids) followed by
\* insert_framing_results(rows for those ids) was performed any number of
\* times with the same arguments, entity_framing holds the rows it held
\* after the first time, each as often as then: no row of the articles is
\* stored more often than the rows argument has it.
C14_ReExtractionIdempotent ==
    (job.step = "delete" /\ job.rounds >= 1) =>
        /\ RowCounts(tbl_framing) = RowCounts(job.first)
        /\ \A k \in 1..Len(tbl_framing) :
               tbl_framing[k].article_id \in job.ids =>
                   Occurrences(tbl_framing[k], tbl_framing)
                       = Occurrences(tbl_framing[k],
                                     [j \in 1..Len(job.rows) |->
                                         FramingMapping(job.rows[j])])

\* The pair of calls was performed twice on a table that held rows of the
\* articles before, and rows of them are stored.
C14_Witness ==
    /\ job.step = "delete"
    /\ job.rounds >= 2
    /\ Len(job.first) > Len(job.rows)
    /\ \E k \in 1..Len(tbl_framing) : tbl_framing[k].article_id \in job.ids

\* C15: after a run with database storage on an empty database has
\* completed, every row of articles has exactly one row of
\* sentiment_analysis, the two tables have the same number of rows, and
\* articles has no more rows than the --limit given.
C15_SentimentPerArticleWithinLimit ==
    (run.stage = "completed" /\ run.db_session) =>
        /\ Len(tbl_sentiment) = Len(tbl_articles)
        /\ \A k \in 1..Len(tbl_articles) :
               Cardinality({j \in 1..Len(tbl_sentiment) :
                               tbl_sentiment[j].article_id = tbl_articles[k].id})
                   = 1
        /\ run.has_limit => Len(tbl_articles) <= run.limit

\* The tokens of a sentence as get_context_windows sees them.
SentenceTokens(sentence) == word_tokenize(Lower(StripPunct(sentence)))

\* The indices at which the entity's tokens occur in a token list.
Occurrences_Of(entity_tokens, tokens) ==
    {i \in 0..(Len(tokens) - Len(entity_tokens)) :
        Slice(tokens, i, i + Len(entity_tokens)) = entity_tokens}

\* The sentences of the k-th article that contain the entity as a
\* substring.
QualifyingSentences(k) ==
    LET sentences == sent_tokenize(clean_text(ArticleText(articles[k])))
        Qualifies(sentence) == IsSubstring(Lower(entity_word), Lower(sentence))
    IN  SelectSeq(sentences, Qualifies)

\* The windows get_context_windows emits for the k-th article.
ArticleWindows(k) ==
    get_context_windows(clean_text(ArticleText(articles[k])), entity_word)

\* The windows of a token list, by ascending index of the occurrence, when
\* a window ends `after` tokens behind the index.
RECURSIVE WindowsFrom(_, _, _, _)
WindowsFrom(tokens, entity_tokens, i, after) ==
    IF i > Len(tokens) - Len(entity_tokens) THEN << >>
    ELSE (IF i \in Occurrences_Of(entity_tokens, tokens)
          THEN << Slice(tokens, Max(0, i - window_size),
                        Min(Len(tokens), i + after)) >>
          ELSE << >>)
             \o WindowsFrom(tokens, entity_tokens, i + 1, after)

\* The same over the qualifying sentences of the k-th article.
WindowsEnding(k, after) ==
    LET sentences == QualifyingSentences(k)
    IN  ConcatAll([s \in 1..Len(sentences) |->
                      WindowsFrom(SentenceTokens(sentences[s]),
                                  EntityTokens(entity_word), 0, after)])

\* C16 as stated: for a match at index i the window is the tokens in
\* [max(0, i-W), min(len, i+W+1)), and no window has more than 2W+1 tokens.
C16_WindowOfHalfWidth ==
    (pc = "done" /\ EntityTokens(entity_word) # << >>) =>
        \A k \in 1..Len(articles) :
            \A windows \in {ArticleWindows(k)} :
                /\ windows = WindowsEnding(k, window_size + 1)
                /\ \A w \in 1..Len(windows) :
                       Len(windows[w]) <= 2 * window_size + 1

\* C16, amended: for an entity of n tokens matched at the indices i to
\* i+n-1 the window is the tokens in [max(0, i-W), min(len, i+n+W)); it
\* contains the entity's tokens and has at most 2W+n tokens, which is 2W+1
\* for an entity of one token.
C16_WindowAroundEntity ==
    (pc = "done" /\ EntityTokens(entity_word) # << >>) =>
        LET n == Len(EntityTokens(entity_word))
        IN  \A k \in 1..Len(articles) :
                \A windows \in {ArticleWindows(k)} :
                    /\ windows = WindowsEnding(k, n + window_size)
                    /\ \A w \in 1..Len(windows) :
                           /\ Len(windows[w]) <= 2 * window_size + n
                           /\ Occurrences_Of(EntityTokens(entity_word),
                                             windows[w]) # {}

\* An entity of two tokens whose window is cut short of the sentence end
\* and has more than 2W+1 tokens.
C16_Witness ==
    /\ pc = "done"
    /\ articles # << >>
    /\ Len(EntityTokens(entity_word)) = 2
    /\ \E window \in Range(ArticleWindows(1)) :
           /\ Len(window) = 2 * window_size + 2
           /\ Len(window) < Len(SentenceTokens(QualifyingSentences(1)[1]))

\* The number of occurrences of the entity in a list of sentences.
RECURSIVE OccurrenceCount(_)
OccurrenceCount(sentences) ==
    IF sentences = << >> THEN 0
    ELSE Cardinality(Occurrences_Of(EntityTokens(entity_word),
                                    SentenceTokens(sentences[1])))
             + OccurrenceCount(Tail(sentences))

\* C17: get_context_windows emits one window for every index at which the
\* entity occurs in a qualifying sentence: an article whose qualifying
\* sentences hold k occurrences yields k windows, overlapping and equal
\* windows included.
C17_WindowPerOccurrence ==
    (pc = "done" /\ EntityTokens(entity_word) # << >>) =>
        \A k \in 1..Len(articles) :
            Len(ArticleWindows(k)) = OccurrenceCount(QualifyingSentences(k))

\* A sentence with three occurrences yields three windows, two of them
\* equal.
C17_Witness ==
    /\ pc = "done"
    /\ articles # << >>
    /\ \E windows \in {ArticleWindows(1)} :
           /\ Len(windows) = 3
           /\ OccurrenceCount(QualifyingSentences(1)) = 3
           /\ Len(QualifyingSentences(1)) = 1
           /\ \E v, w \in 1..3 : v # w /\ windows[v] = windows[w]

\* C18: whatever the window size, no phrase extract_from_article returns
\* begins or ends with a stop word, and none consists of stop words only.
C18_NoStopWordAtBoundary ==
    pc = "done" =>
        \A k \in 1..Len(articles) :
            \A p \in ArticlePhrases(k) :
                \A tokens \in {Split(p)} :
                    /\ tokens[1] \notin stopwords
                    /\ tokens[Len(tokens)] \notin stopwords
                    /\ \E t \in 1..Len(tokens) : tokens[t] \notin stopwords

\* The candidates of each window of the k-th article, one set per window.
CandidatesPerWindow(k) ==
    LET windows == ArticleWindows(k)
    IN  [w \in 1..Len(windows) |->
            Range(WindowCandidates(windows[w],
                                   Range(EntityTokens(entity_word))))]

\* The candidates of a set that are a substring of no other one.
Maximal(candidates) ==
    {p \in candidates :
        \A q \in candidates : q # p => ~IsSubstring(p, q)}

\* C19 as stated: deduplication is per window, so what a window keeps is
\* in the article's phrase set, also when it is a substring of a phrase of
\* another window of the article.
C19_DedupPerWindow ==
    (pc = "done" /\ EntityTokens(entity_word) # << >>) =>
        \A k \in 1..Len(articles) :
            \A per_window \in {CandidatesPerWindow(k)} :
                \A w \in 1..Len(per_window) :
                    Maximal(per_window[w]) \subseteq ArticlePhrases(k)

\* C19, amended: deduplication is per article, over the candidates of all
\* its windows together: the article's phrase set is the candidates that
\* are a substring of no other candidate of the article, whichever window
\* that one came from.
C19_DedupPerArticle ==
    (pc = "done" /\ EntityTokens(entity_word) # << >>) =>
        \A k \in 1..Len(articles) :
            \A per_window \in {CandidatesPerWindow(k)} :
                ArticlePhrases(k)
                    = Maximal(UNION {per_window[w] : w \in 1..Len(per_window)})

\* A phrase kept for one window is a substring of a phrase of another
\* window and is absent from the article's phrase set.
C19_Witness ==
    /\ pc = "done"
    /\ articles # << >>
    /\ EntityTokens(entity_word) # << >>
    /\ \E per_window \in {CandidatesPerWindow(1)} :
           \E v, w \in 1..Len(per_window) :
               /\ v # w
               /\ \E p \in Maximal(per_window[v]) :
                      /\ p \notin per_window[w]
                      /\ \E q \in per_window[w] : IsSubstring(p, q)
                      /\ p \notin ArticlePhrases(1)

\* C20: once the extractor is constructed, no step of extract_phrases (and
\* of the extract_from_article calls it makes) changes the stop-word set,
\* window_size or the article records passed in.
C20_ExtractorAndArticlesUnchanged ==
    [][pc # "new" =>
          /\ stopwords' = stopwords
          /\ window_size' = window_size
          /\ articles' = articles]_vars

\* Two calls have returned phrases found with a loaded stop-word set.
C20_Witness ==
    /\ pc = "done"
    /\ Len(returned) >= 2
    /\ stopwords # {}
    /\ articles # << >>
    /\ results # << >>

\* What the article loop takes from each article: the phrases
\* extract_from_article returns for it, and its url.
Yields ==
    {[article |-> k,
      phrases |-> extract_from_article(ArticleText(articles[k]), entity_word),
      url |-> articles[k].url] : k \in 1..Len(articles)}

\* The phrase map after the article loop has taken the first n articles in
\* the order f.
RECURSIVE Aggregated(_, _, _)
Aggregated(yields, f, n) ==
    IF n = 0 THEN << >>
    ELSE LET y == CHOOSE y \in yields : y.article = f[n]
         IN  AddPhrases(Aggregated(yields, f, n - 1), y.phrases, y.url)

\* What extract_phrases returns for the articles in the order f.
Returned(yields, f) ==
    FormatResults(SortByCount(FilterPhraseData(
        Aggregated(yields, f, Len(articles)))))

\* A returned list as a set of records, the sources of each as a set.
RecordSet(res) ==
    {[phrase |-> res[k].phrase, count |-> res[k].count,
      sources |-> Range(res[k].sources)] : k \in 1..Len(res)}

\* The orderings of 1..n, for every length of an article list of the model.
AllOrderings ==
    [n \in 0..MaxArticles |->
        {f \in [1..n -> 1..n] : \A i, j \in 1..n : f[i] = f[j] => i = j}]

Orderings(n) == AllOrderings[n]

\* C21: extract_phrases returns the same set of records (phrase, count and
\* set of source urls) for every permutation of the article list.
C21_OrderIndependent ==
    pc = "done" =>
        \A yields \in {Yields} :
            \A f \in Orderings(Len(articles)) :
                RecordSet(Returned(yields, f)) = RecordSet(results)

\* A record is returned whose sources are the urls of two different
\* articles of the list.
C21_Witness ==
    /\ pc = "done"
    /\ \E i, j \in 1..Len(articles) :
           /\ articles[i] # articles[j]
           /\ articles[i].url # articles[j].url
           /\ \E r \in 1..Len(results) :
                  {articles[i].url, articles[j].url}
                      \subseteq Range(results[r].sources)

\* The sentences of the k-th article, qualifying or not.
ArticleSentences(k) == sent_tokenize(clean_text(ArticleText(articles[k])))

\* C22: the prefilter loses nothing: every sentence whose tokens contain
\* the entity's tokens passes it, and the article yields a window for each
\* occurrence of the entity's tokens in any of its sentences.
C22_PrefilterLosesNothing ==
    (pc = "done" /\ EntityTokens(entity_word) # << >>) =>
        \A k \in 1..Len(articles) :
            \A sentences \in {ArticleSentences(k)} :
                /\ \A s \in 1..Len(sentences) :
                       Occurrences_Of(EntityTokens(entity_word),
                                      SentenceTokens(sentences[s])) # {}
                           => IsSubstring(Lower(entity_word),
                                          Lower(sentences[s]))
                /\ Len(ArticleWindows(k)) = OccurrenceCount(sentences)

\* C23: a phrase that at least two articles yield is missing from the
\* returned list only if it is a substring of a phrase that is returned.
C23_RecurringSuppressedOnlyByReturned ==
    pc = "done" =>
        \A yields \in {Yields} :
            \A y \in yields :
                \A p \in Range(y.phrases) :
                    (/\ Cardinality({z \in yields : p \in Range(z.phrases)}) >= 2
                     /\ p \notin ResultPhrases)
                        => \E q \in ResultPhrases : IsSubstring(p, q)

\* C24: in every returned record the sources list repeats no url, each of
\* its urls is the url of an article of the input that yields the phrase,
\* and it is no longer than the count.
C24_SourcesOfRecord ==
    pc = "done" =>
        \A yields \in {Yields} :
            \A r \in 1..Len(results) :
                \A sources \in {results[r].sources} :
                    /\ \A i, j \in 1..Len(sources) :
                           sources[i] = sources[j] => i = j
                    /\ \A i \in 1..Len(sources) :
                           \E y \in yields :
                               /\ y.url = sources[i]
                               /\ y.url # << >>
                               /\ results[r].phrase \in Range(y.phrases)
                    /\ Len(sources) <= results[r].count

\* Of two returned records, one has fewer sources than its count, from
\* articles sharing a url or lacking one, and one has two sources.
C24_Witness ==
    /\ pc = "done"
    /\ \E r \in 1..Len(results) :
           /\ results[r].sources # << >>
           /\ Len(results[r].sources) < results[r].count
    /\ \E r \in 1..Len(results) : Len(results[r].sources) = 2

C26_GetNextRunNeverRaises ==
    /\ monitor.pc # "raised"
    /\ monitor.pc = "returned" =>
           \/ monitor.result.kind \in {"unknown", "error", "not_scheduled"}
           \/ /\ monitor.result.kind = "next_run"
              /\ monitor.result.next_run \in sched.written

\* get_next_run read the file between its truncation and its rewriting.
C26_Witness ==
    /\ monitor.pc = "returned"
    /\ monitor.result.kind = "error"
    /\ sched.pc = "write"
    /\ state_file.exists
    /\ ~state_file.complete

\* C27: the status of the run's row only moves from 'running' to 'completed'
\* or to 'failed' and then stays; completed_at is set only on a row whose
\* status is 'completed'.
C27_StatusIsFinal ==
    [][/\ pipeline_runs.status = "completed" =>
              pipeline_runs'.status = "completed"
       /\ pipeline_runs.status = "failed" => pipeline_runs'.status = "failed"
       /\ pipeline_runs'.exists =>
              pipeline_runs'.status \in {"running", "completed", "failed"}
       /\ pipeline_runs'.completed_at =>
              pipeline_runs'.status = "completed"]_vars

\* C28: when run_pipeline has returned or raised, the session it obtained is
\* closed.
C28_SessionClosed ==
    rp.pc \in {"returned", "raised"} => session # "open"

\* C30: when a stage has raised, run_pipeline ends with the metadata file
\* and, if there is a session, the row marked 'failed', raises that same
\* exception, and no later stage was executed or marked completed.
C30_FailedRunIsMarked ==
    \A k \in 1..Len(Stages) :
        (/\ rp.pc \in {"returned", "raised"}
         /\ rp.caught = Stages[k]) =>
            /\ rp.pc = "raised"
            /\ rp.raised = rp.caught
            /\ run_meta.status = "failed"
            /\ rp.db_session = "session" => pipeline_runs.status = "failed"
            /\ \A l \in (k + 1)..Len(Stages) :
                   /\ Stages[l] \notin rp.executed
                   /\ Stages[l] \notin run_meta.stages
                   /\ Stages[l] \notin pipeline_runs.stages

\* The articles of arts at the positions in S, in the order of arts.
Picked(arts, S) ==
    LET at == Indices(arts, LAMBDA k : k \in S)
    IN  [j \in 1..Len(at) |-> arts[at[j]]]

SameHashOrUrl(a, b) == a.content_hash = b.content_hash \/ a.url = b.url

\* No two articles of arts share a url or a content hash.
PairwiseDistinct(arts) ==
    \A k, l \in 1..Len(arts) : k # l => ~SameHashOrUrl(arts[k], arts[l])

\* What clean_articles returns when deduplicate_articles keeps the
\* positions S of the collected articles.
CleanedKeeping(S) ==
    LET IsIndonesian(article) == article.is_indonesian
    IN  SelectSeq(Picked(run.articles, S), IsIndonesian)

\* C29 as stated: an article is kept when it is the first of the input with
\* its content hash and the first with its url, and dropped otherwise; the
\* list handed to insert_articles has pairwise distinct urls and hashes.
C29_KeepsFirstOfEach ==
    run.stage \in {"cleaned", "stored", "analysed", "completed", "failed"} =>
        /\ run.cleaned_articles =
               CleanedKeeping({k \in 1..Len(run.articles) :
                                  \A j \in 1..(k - 1) :
                                      ~SameHashOrUrl(run.articles[j],
                                                     run.articles[k])})
        /\ PairwiseDistinct(run.cleaned_articles)

\* S holds the positions of the articles that share neither content hash
\* nor url with an article at an earlier position of S.
KeptPositions(arts, S) ==
    \A k \in 1..Len(arts) :
        k \in S <=> \A j \in S : j < k => ~SameHashOrUrl(arts[j], arts[k])

\* C29: deduplicate_articles keeps, in input order, the articles that share
\* neither content hash nor url with an article kept before them, and the
\* list handed to insert_articles has pairwise distinct urls and hashes.
C29_KeepsFirstAmongKept ==
    run.stage \in {"cleaned", "stored", "analysed", "completed", "failed"} =>
        /\ \E S \in SUBSET (1..Len(run.articles)) :
               /\ KeptPositions(run.articles, S)
               /\ run.cleaned_articles = CleanedKeeping(S)
        /\ PairwiseDistinct(run.cleaned_articles)

\* The second article is dropped for its content hash, and the third, which
\* has the url of the second, is kept and handed to insert_articles.
C29_Witness ==
    /\ run.stage = "stored"
    /\ run.db_session
    /\ Len(run.articles) = 3
    /\ run.articles[1].content_hash = run.articles[2].content_hash
    /\ run.articles[2].url = run.articles[3].url
    /\ Len(run.cleaned_articles) = 2
    /\ run.cleaned_articles[2] = run.articles[3]

====
